---- MODULE Spec2Model ----
(***************************************************************************)
(* A model of the FROST protocol driver of meesign-crypto                  *)
(* (src/protocol/frost.rs, src/wasm_api.rs): the DKG session               *)
(* (KeygenContext), the sign session (SignContext), the host handle        *)
(* (wasm_api::Protocol) and a relay that moves each round's outbound       *)
(* messages between the sessions of one group.                             *)
(*                                                                         *)
(* The frost_secp256k1 library is modelled "in the exponent": a scalar is  *)
(* a number modulo the prime Q and a curve point is represented by its     *)
(* discrete logarithm, so that polynomial evaluation, Lagrange             *)
(* interpolation, share verification and Schnorr verification are          *)
(* computed, not assumed.  OsRng is a nondeterministic draw of a seed.     *)
(***************************************************************************)
EXTENDS Integers, Sequences, FiniteSets, TLC

\* ---------------------------------------------------------------- bounds
MaxParties == 3
RngMax == 2
MaxMsg == 1
FatalParties == 2
MaxFaulty == 1
MaxCalls == 2

\* ------------------------------------------------------ program constants
\* ProtocolId / ProtocolType discriminators.
Gg18 == 0
Elgamal == 1
Frost == 2
\* `as u16` keeps the low 16 bits of a u32 field.
U16 == 65536
\* Order of the scalar field (a small prime standing for secp256k1's order).
Q == 11

\* ------------------------------------------------------------- utilities
Range(f) == {f[x] : x \in DOMAIN f}

Max(S) == CHOOSE x \in S : \A y \in S : y <= x

Min(S) == CHOOSE x \in S : \A y \in S : x <= y

\* The elements of a set of integers in ascending order (BTreeMap key order).
RECURSIVE SortedSeq(_)
SortedSeq(S) ==
  IF S = {} THEN <<>> ELSE <<Min(S)>> \o SortedSeq(S \ {Min(S)})

\* Result values of the library and of the driver's helpers.
OkVal(v) == [ok |-> TRUE, val |-> v, err |-> ""]

ErrVal(e) == [ok |-> FALSE, val |-> <<>>, err |-> e]

\* ------------------------------------------------------ scalar arithmetic
Mod(x) == x % Q

Inv(x) == CHOOSE y \in 1..(Q - 1) : (Mod(x) * y) % Q = 1

RECURSIVE SumOver(_, _)
SumOver(S, f) ==
  IF S = {} THEN 0
  ELSE LET x == CHOOSE y \in S : TRUE IN Mod(f[x] + SumOver(S \ {x}, f))

RECURSIVE ProdOver(_, _)
ProdOver(S, f) ==
  IF S = {} THEN 1
  ELSE LET x == CHOOSE y \in S : TRUE IN Mod(f[x] * ProdOver(S \ {x}, f))

\* Horner evaluation of the polynomial with coefficients c[1] + c[2] x + ...
RECURSIVE EvalFrom(_, _, _)
EvalFrom(c, x, k) ==
  IF k > Len(c) THEN 0 ELSE Mod(c[k] + x * EvalFrom(c, x, k + 1))

EvaluatePolynomial(x, c) == EvalFrom(c, Mod(x), 1)

\* Lagrange coefficient of identifier i over the identifier set S, at 0.
Lagrange(i, S) ==
  LET num == ProdOver(S \ {i}, [j \in S \ {i} |-> Mod(j)])
      den == ProdOver(S \ {i}, [j \in S \ {i} |-> Mod(j - i)])
  IN Mod(num * Inv(den))

\* ----------------------------------------------------- frost::Identifier
\* Identifier::try_from(u16): every value but 0 is an identifier.
IdentifierOk(x) == x # 0

\* ------------------------------------------------------- curve points
\* A point is represented by its discrete logarithm; the tag keeps scalars
\* (secret) and points (public) apart.
G(x) == [pt |-> Mod(x)]

PAdd(a, b) == [pt |-> Mod(a.pt + b.pt)]

PMul(k, a) == [pt |-> Mod(k * a.pt)]

\* Sum over k of x^(k-1) * commitment[k]: the point of the share of x.
EvaluateCommitment(x, commitment) ==
  [pt |-> EvaluatePolynomial(x, [k \in DOMAIN commitment |-> commitment[k].pt])]

\* ------------------------------------------------------------ frost: DKG
\* The polynomial a session draws from OsRng in part1: `threshold`
\* coefficients determined by the seed.
Coefficients(seed, threshold) ==
  [k \in 1..threshold |-> Mod(3 * seed + k * (seed + 2) + 1)]

\* The proof of knowledge of the constant term binds the prover's identifier
\* and its commitment to the constant term.
ProofOfKnowledge(id, commitment) == [id |-> id, phi0 |-> commitment[1]]

VerifyProofOfKnowledge(id, pkg) ==
  Len(pkg.commitment) >= 1 /\ pkg.pok = ProofOfKnowledge(id, pkg.commitment)

\* dkg::part1(identifier, max_signers, min_signers, rng)
Part1(identifier, max_signers, min_signers, seed) ==
  IF min_signers < 2 THEN ErrVal("InvalidMinSigners")
  ELSE IF max_signers < 2 THEN ErrVal("InvalidMaxSigners")
  ELSE IF min_signers > max_signers THEN ErrVal("InvalidMinSigners")
  ELSE LET coeffs == Coefficients(seed, min_signers)
           commitment == [k \in DOMAIN coeffs |-> G(coeffs[k])]
       IN OkVal([secret |-> [identifier |-> identifier,
                             coefficients |-> coeffs,
                             commitment |-> commitment,
                             min_signers |-> min_signers,
                             max_signers |-> max_signers],
                 package |-> [commitment |-> commitment,
                              pok |-> ProofOfKnowledge(identifier, commitment)]])

\* dkg::part2(secret_package, round1_packages)
Part2(secret, round1) ==
  IF Cardinality(DOMAIN round1) # secret.max_signers - 1
  THEN ErrVal("IncorrectNumberOfPackages")
  ELSE IF \E ell \in DOMAIN round1 : ~VerifyProofOfKnowledge(ell, round1[ell])
  THEN ErrVal("InvalidProofOfKnowledge")
  ELSE OkVal([secret |-> [identifier |-> secret.identifier,
                          commitment |-> secret.commitment,
                          secret_share |->
                            EvaluatePolynomial(secret.identifier, secret.coefficients),
                          min_signers |-> secret.min_signers,
                          max_signers |-> secret.max_signers],
              packages |-> [ell \in DOMAIN round1 |->
                             [signing_share |->
                               EvaluatePolynomial(ell, secret.coefficients)]]])

\* dkg::part3(round2_secret_package, round1_packages, round2_packages)
Part3(secret, round1, round2) ==
  IF Cardinality(DOMAIN round1) # secret.max_signers - 1
  THEN ErrVal("IncorrectNumberOfPackages")
  ELSE IF Cardinality(DOMAIN round1) # Cardinality(DOMAIN round2)
  THEN ErrVal("IncorrectNumberOfPackages")
  ELSE IF DOMAIN round1 # DOMAIN round2
  THEN ErrVal("IncorrectPackage")
  ELSE IF \E ell \in DOMAIN round2 :
            EvaluateCommitment(secret.identifier, round1[ell].commitment)
              # G(round2[ell].signing_share)
  THEN ErrVal("InvalidSecretShare")
  ELSE LET peers == DOMAIN round1
           all == peers \cup {secret.identifier}
           commitmentOf(ell) ==
             IF ell = secret.identifier THEN secret.commitment
             ELSE round1[ell].commitment
           signing_share ==
             Mod(secret.secret_share
                 + SumOver(peers, [ell \in peers |-> round2[ell].signing_share]))
           verifying_key ==
             [pt |-> SumOver(all, [ell \in all |-> commitmentOf(ell)[1].pt])]
           verifying_share(id) ==
             [pt |-> SumOver(all, [ell \in all |->
                                    EvaluateCommitment(id, commitmentOf(ell)).pt])]
       IN OkVal([key |-> [identifier |-> secret.identifier,
                          signing_share |-> signing_share,
                          verifying_share |-> verifying_share(secret.identifier),
                          verifying_key |-> verifying_key,
                          min_signers |-> secret.min_signers],
                 pubkey |-> [verifying_shares |->
                               [id \in all |-> verifying_share(id)],
                             verifying_key |-> verifying_key]])

\* -------------------------------------------------------- frost: signing
\* round1::commit(signing_share, rng): the hiding and binding nonces drawn
\* from OsRng, and the commitments to them.
Commit(signing_share, seed) ==
  LET hiding == Mod(2 * seed + 1)
      binding == Mod(seed + 3)
      commitments == [hiding |-> G(hiding), binding |-> G(binding)]
  IN [nonces |-> [hiding |-> hiding, binding |-> binding,
                  commitments |-> commitments],
      commitments |-> commitments]

\* SigningPackage::new(signing_commitments, message)
SigningPackageNew(commitments_map, message) ==
  [signing_commitments |-> commitments_map, message |-> message]

\* The binding factor of signer id: a hash of the verifying key, the message,
\* the whole commitment list and the identifier.
BindingFactor(id, verifying_key, package) ==
  LET cm == package.signing_commitments
      ids == DOMAIN cm
  IN Mod(1 + 2 * id + 3 * package.message + 5 * verifying_key.pt
         + SumOver(ids, [j \in ids |->
                          Mod((j + 1) * (cm[j].hiding.pt + 2 * cm[j].binding.pt))]))

\* The group commitment: the sum of D_j + rho_j E_j over the signers.
GroupCommitment(verifying_key, package) ==
  LET cm == package.signing_commitments
      ids == DOMAIN cm
  IN [pt |-> SumOver(ids, [j \in ids |->
               Mod(cm[j].hiding.pt
                   + BindingFactor(j, verifying_key, package) * cm[j].binding.pt)])]

\* The Schnorr challenge H2(R, verifying key, message).
Challenge(R, verifying_key, message) ==
  Mod(1 + 2 * R.pt + 3 * verifying_key.pt + 5 * message)

\* VerifyingKey::verify(message, signature)
Verify(verifying_key, message, signature) ==
  G(signature.z)
    = PAdd(signature.R,
           PMul(Challenge(signature.R, verifying_key, message), verifying_key))

\* round2::sign(signing_package, signer_nonces, key_package)
Sign(package, nonces, key) ==
  LET cm == package.signing_commitments
      ids == DOMAIN cm
  IN IF Cardinality(ids) < key.min_signers
     THEN ErrVal("IncorrectNumberOfCommitments")
     ELSE IF key.identifier \notin ids THEN ErrVal("MissingCommitment")
     ELSE IF cm[key.identifier] # nonces.commitments
     THEN ErrVal("IncorrectCommitment")
     ELSE LET rho == BindingFactor(key.identifier, key.verifying_key, package)
              R == GroupCommitment(key.verifying_key, package)
              c == Challenge(R, key.verifying_key, package.message)
              lambda == Lagrange(key.identifier, ids)
          IN OkVal([share |-> Mod(nonces.hiding + nonces.binding * rho
                                   + lambda * key.signing_share * c)])

\* The check of one signature share against the signer's verifying share.
VerifyShare(id, share, package, pubkey) ==
  LET cm == package.signing_commitments
      R == GroupCommitment(pubkey.verifying_key, package)
      c == Challenge(R, pubkey.verifying_key, package.message)
      rho == BindingFactor(id, pubkey.verifying_key, package)
      lambda == Lagrange(id, DOMAIN cm)
  IN G(share.share)
       = PAdd(PAdd(cm[id].hiding, PMul(rho, cm[id].binding)),
              PMul(lambda * c, pubkey.verifying_shares[id]))

\* frost::aggregate(signing_package, signature_shares, pubkeys)
Aggregate(package, shares, pubkey) ==
  LET cm == package.signing_commitments
      ids == DOMAIN cm
  IN IF Cardinality(ids) # Cardinality(DOMAIN shares)
     THEN ErrVal("UnknownIdentifier")
     ELSE IF \E id \in ids :
               id \notin DOMAIN shares \/ id \notin DOMAIN pubkey.verifying_shares
     THEN ErrVal("UnknownIdentifier")
     ELSE LET R == GroupCommitment(pubkey.verifying_key, package)
              z == SumOver(ids, [id \in ids |-> shares[id].share])
              signature == [R |-> R, z |-> z]
          IN IF Verify(pubkey.verifying_key, package.message, signature)
             THEN OkVal(signature)
             ELSE IF \E id \in ids : ~VerifyShare(id, shares[id], package, pubkey)
             THEN ErrVal("InvalidSignatureShare")
             ELSE ErrVal("InvalidSignature")

\* ------------------------------------------------- envelopes and framing
\* Inbound bytes, by what they decode to.
Garbage == [kind |-> "Garbage"]

GroupInit(protocol_type, parties, threshold, index) ==
  [kind |-> "GroupInit", protocol_type |-> protocol_type, parties |-> parties,
   threshold |-> threshold, index |-> index]

SignInitMsg(protocol_type, indices, data) ==
  [kind |-> "Init", protocol_type |-> protocol_type, indices |-> indices,
   data |-> data]

\* serde_json::to_vec of a value of type ty.
Encode(ty, v) == [json |-> ty, val |-> v]

\* serialize_bcast(value, n): the same bytes for each of n recipients.
SerializeBcast(ty, v, n) == [i \in 1..n |-> Encode(ty, v)]

\* serialize_uni(vec): one payload per recipient.
SerializeUni(ty, vec) == [i \in 1..Len(vec) |-> Encode(ty, vec[i])]

\* inflate(bytes, n)
Inflate(bytes, n) == [i \in 1..n |-> bytes]

\* pack(msgs, protocol_type)
Pack(msgs, protocol_type) ==
  [kind |-> "Batch", protocol_type |-> protocol_type, msgs |-> msgs]

\* unpack(data)
Unpack(data) ==
  IF data.kind = "Batch" THEN OkVal(data.msgs) ELSE ErrVal("decode error")

\* deserialize_vec::<ty>(msgs)
DeserializeVec(ty, msgs) ==
  IF \A i \in 1..Len(msgs) : msgs[i].json = ty
  THEN OkVal([i \in 1..Len(msgs) |-> msgs[i].val])
  ELSE ErrVal("deserialize error")

\* ------------------------------------------------------- call results
NoOut == [kind |-> "None"]

Ok(out) == [status |-> "ok", err |-> "", out |-> out, recipient |-> "Server"]

Err(e) == [status |-> "err", err |-> e, out |-> NoOut, recipient |-> "None"]

Panic(e) == [status |-> "panic", err |-> e, out |-> NoOut, recipient |-> "None"]

\* The outcome of a call on a session: the session afterwards and the result.
Outcome(ctx, res) == [ctx |-> ctx, res |-> res]

\* collect() of (key, value) pairs into a BTreeMap: entry i of vec is keyed by
\* keys[i], and a later entry replaces an earlier one with the same key.
CollectMap(keys, vec) ==
  [k \in {keys[i] : i \in 1..Len(vec)} |->
     vec[Max({i \in 1..Len(vec) : keys[i] = k})]]

\* BTreeMap::insert
MapInsert(m, k, v) ==
  [x \in DOMAIN m \cup {k} |-> IF x = k THEN v ELSE m[x]]

\* A faulty variant of the next definition: the values in descending key order.
MapValuesDescending(m) ==
  LET ks == SortedSeq(DOMAIN m)
  IN [i \in 1..Len(ks) |-> m[ks[Len(ks) + 1 - i]]]

\* The values of a map in ascending key order.
MapValuesSorted(m) ==
  LET ks == SortedSeq(DOMAIN m) IN [i \in 1..Len(ks) |-> m[ks[i]]]

\* A faulty variant of the next definition: every protocol_type is accepted.
ProtocolTypeAny(protocol_type) == TRUE

\* The check of an init envelope's protocol_type against ProtocolType::Frost.
ProtocolTypeOk(protocol_type) == protocol_type = Frost

\* A faulty variant of the next definition: the finished session starts over.
AlreadyFinishedRestart(ctx) ==
  Outcome([ctx EXCEPT !.round = [tag |-> "R0"]], Ok(Pack(<<>>, Frost)))

\* The Done arm of update: the call fails and the session is left as it is.
AlreadyFinished(ctx) == Outcome(ctx, Err("protocol already finished"))

\* ----------------------------------------------------- KeygenContext
\* KeygenProtocol::new
KeygenNew == [proto |-> "frost_keygen", round |-> [tag |-> "R0"]]

\* KeygenContext::init
KeygenInit(ctx, data, seed) ==
  IF data.kind # "GroupInit" THEN Outcome(ctx, Err("decode error"))
  ELSE IF ~ProtocolTypeOk(data.protocol_type)
  THEN Outcome(ctx, Err("wrong protocol type"))
  ELSE LET parties == data.parties % U16
           threshold == data.threshold % U16
           index == data.index % U16
       IN IF ~IdentifierOk(index) THEN Outcome(ctx, Err("invalid identifier"))
          ELSE LET p1 == Part1(index, parties, threshold, seed)
               IN IF ~p1.ok THEN Outcome(ctx, Err(p1.err))
                  ELSE Outcome(
                         [ctx EXCEPT !.round =
                            [tag |-> "R1", secret |-> p1.val.secret]],
                         Ok(Pack(SerializeBcast("round1::Package",
                                                p1.val.package, parties - 1),
                                 Frost)))

\* A faulty variant of the next definition: the identifier of the session itself is not skipped.
IndexToIdentifierNoSkip(index, local_identifier) == index + 1

\* A faulty variant of the next definition: the comparison with the local
\* identifier is strict.
IndexToIdentifierStrict(index, local_identifier) ==
  IF index + 1 > local_identifier THEN index + 2 ELSE index + 1

\* KeygenContext::index_to_identifier: position index of an inbound batch to
\* the sender's identifier, skipping the local identifier.
IndexToIdentifier(index, local_identifier) ==
  IF index + 1 >= local_identifier THEN index + 2 ELSE index + 1

\* The identifiers of the entries of an inbound batch of length len.
KeygenBatchKeys(len, local_identifier) ==
  [i \in 1..len |-> IndexToIdentifier(i - 1, local_identifier)]

\* KeygenContext::update
KeygenUpdate(ctx, data) ==
  LET round == ctx.round
  IN IF round.tag = "R0" THEN Outcome(ctx, Err("protocol not initialized"))
     ELSE IF round.tag = "Done" THEN AlreadyFinished(ctx)
     ELSE LET up == Unpack(data)
          IN IF ~up.ok THEN Outcome(ctx, Err(up.err))
             ELSE IF round.tag = "R1"
             THEN LET de == DeserializeVec("round1::Package", up.val)
                  IN IF ~de.ok THEN Outcome(ctx, Err(de.err))
                     ELSE LET round1 ==
                                CollectMap(KeygenBatchKeys(Len(de.val),
                                                           round.secret.identifier),
                                           de.val)
                              p2 == Part2(round.secret, round1)
                          IN IF ~p2.ok THEN Outcome(ctx, Err(p2.err))
                             ELSE Outcome(
                                    [ctx EXCEPT !.round =
                                       [tag |-> "R2", secret |-> p2.val.secret,
                                        round1 |-> round1]],
                                    Ok(Pack(SerializeUni("round2::Package",
                                              MapValuesSorted(p2.val.packages)),
                                            Frost)))
             ELSE LET de == DeserializeVec("round2::Package", up.val)
                  IN IF ~de.ok THEN Outcome(ctx, Err(de.err))
                     ELSE LET round2 ==
                                CollectMap(KeygenBatchKeys(Len(de.val),
                                                           round.secret.identifier),
                                           de.val)
                              p3 == Part3(round.secret, round.round1, round2)
                          IN IF ~p3.ok THEN Outcome(ctx, Err(p3.err))
                             ELSE Outcome(
                                    [ctx EXCEPT !.round =
                                       [tag |-> "Done", key |-> p3.val.key,
                                        pubkey |-> p3.val.pubkey]],
                                    Ok(Pack(Inflate(
                                              Encode("VerifyingKey",
                                                     p3.val.pubkey.verifying_key),
                                              Cardinality(DOMAIN round2)),
                                            Frost)))

\* <KeygenContext as Protocol>::advance
KeygenAdvance(ctx, data, seed) ==
  IF ctx.round.tag = "R0" THEN KeygenInit(ctx, data, seed)
  ELSE KeygenUpdate(ctx, data)

\* <KeygenContext as Protocol>::finish
KeygenFinish(ctx) ==
  IF ctx.round.tag = "Done"
  THEN Ok(Encode("(KeyPackage, PublicKeyPackage)",
                 [key |-> ctx.round.key, pubkey |-> ctx.round.pubkey]))
  ELSE Err("protocol not finished")

\* ------------------------------------------------------- SignContext
None == [some |-> FALSE]

Some(v) == [some |-> TRUE, v |-> v]

\* ThresholdProtocol::new(group)
SignNew(group) ==
  [proto |-> "frost_sign", key |-> group.val.key, pubkey |-> group.val.pubkey,
   message |-> None, indices |-> None, round |-> [tag |-> "R0"]]

\* A faulty variant of the next definition: the indices and the message are
\* stored before the protocol type is checked.
SignInitStoreFirst(ctx, data, seed) ==
  IF data.kind # "Init" THEN Outcome(ctx, Err("decode error"))
  ELSE LET indices == [i \in 1..Len(data.indices) |-> data.indices[i] % U16]
           stored == [ctx EXCEPT !.indices = Some(indices),
                                 !.message = Some(data.data)]
           cm == Commit(ctx.key.signing_share, seed)
       IN IF ~ProtocolTypeOk(data.protocol_type)
          THEN Outcome(stored, Err("wrong protocol type"))
          ELSE IF Len(indices) = 0
          THEN Outcome(stored, Panic("attempt to subtract with overflow"))
          ELSE Outcome(
                 [stored EXCEPT !.round =
                    [tag |-> "R1", nonces |-> cm.nonces,
                     commitments |-> cm.commitments]],
                 Ok(Pack(SerializeBcast("SigningCommitments", cm.commitments,
                                        Len(indices) - 1),
                         Frost)))

\* SignContext::init
SignInit(ctx, data, seed) ==
  IF data.kind # "Init" THEN Outcome(ctx, Err("decode error"))
  ELSE IF ~ProtocolTypeOk(data.protocol_type)
  THEN Outcome(ctx, Err("wrong protocol type"))
  ELSE LET indices == [i \in 1..Len(data.indices) |-> data.indices[i] % U16]
           stored == [ctx EXCEPT !.indices = Some(indices),
                                 !.message = Some(data.data)]
           cm == Commit(ctx.key.signing_share, seed)
       IN IF Len(indices) = 0
          THEN Outcome(stored, Panic("attempt to subtract with overflow"))
          ELSE Outcome(
                 [stored EXCEPT !.round =
                    [tag |-> "R1", nonces |-> cm.nonces,
                     commitments |-> cm.commitments]],
                 Ok(Pack(SerializeBcast("SigningCommitments", cm.commitments,
                                        Len(indices) - 1),
                         Frost)))

\* SignContext::local_index: the 0-based position of the own identifier in
\* the stored indices.  The closure unwraps Identifier::try_from of every
\* entry it visits, so a 0 before the own entry aborts.
LocalIndex(ctx) ==
  IF ~ctx.indices.some THEN [status |-> "err", val |-> 0]
  ELSE LET indices == ctx.indices.v
           stops == {i \in 1..Len(indices) :
                       ~IdentifierOk(indices[i]) \/ indices[i] = ctx.key.identifier}
       IN IF stops = {} THEN [status |-> "err", val |-> 0]
          ELSE IF ~IdentifierOk(indices[Min(stops)])
          THEN [status |-> "panic", val |-> 0]
          ELSE [status |-> "ok", val |-> Min(stops) - 1]

\* A faulty variant of the next definition: the position of the session itself is not skipped.
SignSlotNoSkip(i, local_index) == i

\* A faulty variant of the next definition: the comparison with the own
\* position is strict.
SignSlotStrict(i, local_index) == IF i > local_index THEN i + 1 ELSE i

\* The position in the stored indices of entry i of an inbound batch: the
\* own slot is skipped.
SignSlot(i, local_index) == IF i >= local_index THEN i + 1 ELSE i

\* Whether building the identifier map of a batch of length len aborts: an
\* index past the end of indices, or a 0 unwrapped as an identifier.
SignBatchAborts(indices, len, local_index) ==
  \E i \in 0..(len - 1) :
    \/ SignSlot(i, local_index) + 1 > Len(indices)
    \/ ~IdentifierOk(indices[SignSlot(i, local_index) + 1])

\* The identifiers of the entries of an inbound batch of length len.
SignBatchKeys(indices, len, local_index) ==
  [i \in 1..len |-> indices[SignSlot(i - 1, local_index) + 1]]

\* SignContext::update
SignUpdate(ctx, data) ==
  LET round == ctx.round
  IN IF round.tag = "R0" THEN Outcome(ctx, Err("protocol not initialized"))
     ELSE IF round.tag = "Done" THEN AlreadyFinished(ctx)
     ELSE LET li == LocalIndex(ctx)
              up == Unpack(data)
              ty == IF round.tag = "R1" THEN "SigningCommitments"
                    ELSE "SignatureShare"
              de == DeserializeVec(ty, up.val)
              indices == ctx.indices.v
              n_out == Len(indices) - 1
          IN IF li.status = "err"
             THEN Outcome(ctx, Err("participant index not included"))
             ELSE IF li.status = "panic"
             THEN Outcome(ctx, Panic("unwrap of Err"))
             ELSE IF ~up.ok THEN Outcome(ctx, Err(up.err))
             ELSE IF ~de.ok THEN Outcome(ctx, Err(de.err))
             ELSE IF SignBatchAborts(indices, Len(de.val), li.val)
             THEN Outcome(ctx, Panic("index out of bounds or unwrap of Err"))
             ELSE LET keys == SignBatchKeys(indices, Len(de.val), li.val)
                  IN IF round.tag = "R1"
                     THEN LET commitments_map ==
                                MapInsert(CollectMap(keys, de.val),
                                          ctx.key.identifier, round.commitments)
                              signing_package ==
                                SigningPackageNew(commitments_map, ctx.message.v)
                              sh == Sign(signing_package, round.nonces, ctx.key)
                          IN IF ~sh.ok THEN Outcome(ctx, Err(sh.err))
                             ELSE Outcome(
                                    [ctx EXCEPT !.round =
                                       [tag |-> "R2",
                                        signing_package |-> signing_package,
                                        share |-> sh.val]],
                                    Ok(Pack(SerializeBcast("SignatureShare",
                                                           sh.val, n_out),
                                            Frost)))
                     ELSE LET shares ==
                                MapInsert(CollectMap(keys, de.val),
                                          ctx.key.identifier, round.share)
                              ag == Aggregate(round.signing_package, shares,
                                              ctx.pubkey)
                          IN IF ~ag.ok THEN Outcome(ctx, Err(ag.err))
                             ELSE Outcome(
                                    [ctx EXCEPT !.round =
                                       [tag |-> "Done", signature |-> ag.val]],
                                    Ok(Pack(SerializeBcast("Signature",
                                                           ag.val, n_out),
                                            Frost)))

\* A faulty variant of the next definition: the first call is not routed to init.
SignAdvanceUpdateOnly(ctx, data, seed) == SignUpdate(ctx, data)

\* A faulty variant of the next definition: an Init envelope starts a running
\* session over.
SignAdvanceReinit(ctx, data, seed) ==
  IF ctx.round.tag = "R0" \/ data.kind = "Init" THEN SignInit(ctx, data, seed)
  ELSE SignUpdate(ctx, data)

\* <SignContext as Protocol>::advance
SignAdvance(ctx, data, seed) ==
  IF ctx.round.tag = "R0" THEN SignInit(ctx, data, seed)
  ELSE SignUpdate(ctx, data)

\* A faulty variant of the next definition: finish also answers in R2.
SignFinishEarly(ctx) ==
  IF ctx.round.tag = "Done" THEN Ok(Encode("Signature", ctx.round.signature))
  ELSE IF ctx.round.tag = "R2" THEN Ok(Encode("SignatureShare", ctx.round.share))
  ELSE Err("protocol not finished")

\* <SignContext as Protocol>::finish
SignFinish(ctx) ==
  IF ctx.round.tag = "Done" THEN Ok(Encode("Signature", ctx.round.signature))
  ELSE Err("protocol not finished")

\* ------------------------------------------------ wasm_api::Protocol
\* Protocol::advance: dispatch on the session's type.
Advance(ctx, data, seed) ==
  IF ctx.proto = "frost_keygen" THEN KeygenAdvance(ctx, data, seed)
  ELSE SignAdvance(ctx, data, seed)

\* Protocol::finish
Finish(ctx) ==
  IF ctx.proto = "frost_keygen" THEN KeygenFinish(ctx) ELSE SignFinish(ctx)

\* ------------------------------------------- the library calls of advance
\* Which function of the library an advance call reaches, with the map and
\* the signing package it passes: none when the call returns or aborts
\* before the library is called.
NoLib == [fn |-> "none", keys |-> {}, own |-> 0, package |-> NoOut, nonces |-> NoOut]

LibCallOf(fn, keys, own) ==
  [fn |-> fn, keys |-> keys, own |-> own, package |-> NoOut, nonces |-> NoOut]

\* KeygenContext::init and KeygenContext::update up to part1, part2, part3.
KeygenLibCall(ctx, data) ==
  LET round == ctx.round
  IN IF round.tag = "R0"
     THEN IF /\ data.kind = "GroupInit"
             /\ ProtocolTypeOk(data.protocol_type)
             /\ IdentifierOk(data.index % U16)
          THEN LibCallOf("part1", {}, data.index % U16)
          ELSE NoLib
     ELSE IF round.tag = "Done" THEN NoLib
     ELSE LET up == Unpack(data)
              ty == IF round.tag = "R1" THEN "round1::Package"
                    ELSE "round2::Package"
              de == DeserializeVec(ty, up.val)
          IN IF ~up.ok THEN NoLib
             ELSE IF ~de.ok THEN NoLib
             ELSE LibCallOf(IF round.tag = "R1" THEN "part2" ELSE "part3",
                            Range(KeygenBatchKeys(Len(de.val),
                                                  round.secret.identifier)),
                            round.secret.identifier)

\* SignContext::init and SignContext::update up to round1::commit,
\* round2::sign, aggregate.
SignLibCall(ctx, data) ==
  LET round == ctx.round
  IN IF round.tag = "R0"
     THEN IF data.kind = "Init" /\ ProtocolTypeOk(data.protocol_type)
          THEN LibCallOf("commit", {}, ctx.key.identifier)
          ELSE NoLib
     ELSE IF round.tag = "Done" THEN NoLib
     ELSE LET li == LocalIndex(ctx)
              up == Unpack(data)
              ty == IF round.tag = "R1" THEN "SigningCommitments"
                    ELSE "SignatureShare"
              de == DeserializeVec(ty, up.val)
              indices == ctx.indices.v
          IN IF li.status # "ok" THEN NoLib
             ELSE IF ~up.ok THEN NoLib
             ELSE IF ~de.ok THEN NoLib
             ELSE IF SignBatchAborts(indices, Len(de.val), li.val) THEN NoLib
             ELSE LET keys == SignBatchKeys(indices, Len(de.val), li.val)
                      map == MapInsert(CollectMap(keys, de.val),
                                       ctx.key.identifier,
                                       IF round.tag = "R1" THEN round.commitments
                                       ELSE round.share)
                  IN IF round.tag = "R1"
                     THEN [fn |-> "sign", keys |-> DOMAIN map, map |-> map,
                           own |-> ctx.key.identifier,
                           package |-> SigningPackageNew(map, ctx.message.v),
                           nonces |-> round.nonces]
                     ELSE [fn |-> "aggregate", keys |-> DOMAIN map, map |-> map,
                           own |-> ctx.key.identifier,
                           package |-> round.signing_package, nonces |-> NoOut]

LibCall(ctx, data) ==
  IF ctx.proto = "frost_keygen" THEN KeygenLibCall(ctx, data)
  ELSE SignLibCall(ctx, data)

\* ------------------------------------------------ snapshot / restore
\* A BTreeMap as serde writes it: its entries in key order.
MapToPairs(m) ==
  LET ks == SortedSeq(DOMAIN m)
  IN [i \in 1..Len(ks) |-> [k |-> ks[i], v |-> m[ks[i]]]]

PairsToMap(ps) ==
  [k \in {ps[i].k : i \in 1..Len(ps)} |->
     ps[Max({i \in 1..Len(ps) : ps[i].k = k})].v]

\* An Option as serde writes it: null or the value.
OptionToJson(o) ==
  IF o.some THEN [null |-> FALSE, value |-> o.v] ELSE [null |-> TRUE]

OptionFromJson(j) == IF j.null THEN None ELSE Some(j.value)

\* #[derive(Serialize)] of KeygenRound: the variant name and its fields.
SerializeKeygenRound(round) ==
  CASE round.tag = "R0" -> [variant |-> "R0"]
    [] round.tag = "R1" -> [variant |-> "R1", f0 |-> round.secret]
    [] round.tag = "R2" ->
         [variant |-> "R2", f0 |-> round.secret, f1 |-> MapToPairs(round.round1)]
    [] round.tag = "Done" ->
         [variant |-> "Done", f0 |-> round.key, f1 |-> round.pubkey]

DeserializeKeygenRound(j) ==
  CASE j.variant = "R0" -> [tag |-> "R0"]
    [] j.variant = "R1" -> [tag |-> "R1", secret |-> j.f0]
    [] j.variant = "R2" ->
         [tag |-> "R2", secret |-> j.f0, round1 |-> PairsToMap(j.f1)]
    [] j.variant = "Done" -> [tag |-> "Done", key |-> j.f0, pubkey |-> j.f1]

\* A faulty variant of the next definition: the nonces of R1 are left out of the snapshot.
SerializeSignRoundSkipNonces(round) ==
  CASE round.tag = "R0" -> [variant |-> "R0"]
    [] round.tag = "R1" ->
         [variant |-> "R1",
          f0 |-> [hiding |-> 0, binding |-> 0,
                  commitments |-> round.nonces.commitments],
          f1 |-> round.commitments]
    [] round.tag = "R2" ->
         [variant |-> "R2", f0 |-> round.signing_package, f1 |-> round.share]
    [] round.tag = "Done" -> [variant |-> "Done", f0 |-> round.signature]

\* #[derive(Serialize)] of SignRound.
SerializeSignRound(round) ==
  CASE round.tag = "R0" -> [variant |-> "R0"]
    [] round.tag = "R1" ->
         [variant |-> "R1", f0 |-> round.nonces, f1 |-> round.commitments]
    [] round.tag = "R2" ->
         [variant |-> "R2", f0 |-> round.signing_package, f1 |-> round.share]
    [] round.tag = "Done" -> [variant |-> "Done", f0 |-> round.signature]

DeserializeSignRound(j) ==
  CASE j.variant = "R0" -> [tag |-> "R0"]
    [] j.variant = "R1" -> [tag |-> "R1", nonces |-> j.f0, commitments |-> j.f1]
    [] j.variant = "R2" ->
         [tag |-> "R2", signing_package |-> j.f0, share |-> j.f1]
    [] j.variant = "Done" -> [tag |-> "Done", signature |-> j.f0]

\* Protocol::serialize: the typetag name and the serialized fields.
Serialize(ctx) ==
  IF ctx.proto = "frost_keygen"
  THEN [typetag |-> "frost_keygen",
        value |-> [round |-> SerializeKeygenRound(ctx.round)]]
  ELSE [typetag |-> "frost_sign",
        value |-> [key |-> ctx.key, pubkey |-> ctx.pubkey,
                   message |-> OptionToJson(ctx.message),
                   indices |-> OptionToJson(ctx.indices),
                   round |-> SerializeSignRound(ctx.round)]]

\* Protocol::deserialize
Deserialize(bytes) ==
  IF bytes.typetag = "frost_keygen"
  THEN [proto |-> "frost_keygen",
        round |-> DeserializeKeygenRound(bytes.value.round)]
  ELSE [proto |-> "frost_sign", key |-> bytes.value.key,
        pubkey |-> bytes.value.pubkey,
        message |-> OptionFromJson(bytes.value.message),
        indices |-> OptionFromJson(bytes.value.indices),
        round |-> DeserializeSignRound(bytes.value.round)]

\* ------------------------------------------------------------ the relay
\* The position (from 1) of the entry for recipient r in the outbound vector
\* of sender s: the sender's own slot is left out.
PeerSlot(r, s) == IF r < s THEN r ELSE r - 1

\* Whether every peer of r among 1..n has sent a round's outbound vector.
KeygenRelayReady(outs, r, n) ==
  \A s \in (1..n) \ {r} :
    outs[s].kind = "Batch" /\ Len(outs[s].msgs) >= PeerSlot(r, s)

\* The inbound batch of r: from every peer in ascending global index, the
\* entry addressed to r.
KeygenRelayBatch(outs, r, n) ==
  Pack([j \in 1..(n - 1) |->
          LET s == IF j < r THEN j ELSE j + 1
          IN outs[s].msgs[PeerSlot(r, s)]],
       Frost)

\* The positions of the signers other than r in the indices list.
SignPeers(indices, r) ==
  SortedSeq({p \in 1..Len(indices) : indices[p] % U16 # r})

\* The position of the entry for r in the outbound vector of the signer at
\* position p.
SignPeerSlot(indices, r, p) ==
  LET at == {q \in 1..Len(indices) : indices[q] % U16 = r}
  IN IF at = {} THEN 1 ELSE IF Min(at) < p THEN Min(at) ELSE Min(at) - 1

SignRelayReady(outs, r, indices) ==
  \A p \in 1..Len(indices) :
    indices[p] % U16 # r =>
      /\ (indices[p] % U16) \in DOMAIN outs
      /\ outs[indices[p] % U16].kind = "Batch"
      /\ SignPeerSlot(indices, r, p) >= 1
      /\ Len(outs[indices[p] % U16].msgs) >= SignPeerSlot(indices, r, p)

SignRelayBatch(outs, r, indices) ==
  LET peers == SignPeers(indices, r)
  IN Pack([j \in 1..Len(peers) |->
             outs[indices[peers[j]] % U16].msgs[SignPeerSlot(indices, r, peers[j])]],
          Frost)

\* ------------------------------------------- a complete honest DKG run
\* The key material of a group of n with threshold t whose sessions drew
\* seeds[i]: every session advanced three times on the relay's batches, then
\* finished.
KeygenRun(t, n, seeds) ==
  LET a1 == [i \in 1..n |->
               KeygenAdvance(KeygenNew, GroupInit(Frost, n, t, i), seeds[i])]
      o1 == [i \in 1..n |-> a1[i].res.out]
      a2 == [i \in 1..n |->
               KeygenAdvance(a1[i].ctx, KeygenRelayBatch(o1, i, n), 0)]
      o2 == [i \in 1..n |-> a2[i].res.out]
      a3 == [i \in 1..n |->
               KeygenAdvance(a2[i].ctx, KeygenRelayBatch(o2, i, n), 0)]
  IN [i \in 1..n |-> KeygenFinish(a3[i].ctx).out]

\* ================================================================ state
VARIABLES
  mode,     \* "keygen": the sessions are DKG sessions; "sign": sign sessions
  params,   \* the threshold and the number of parties of the group
  plan,     \* sign: the indices list and the message the host sends in Init
  sess,     \* the host handle of every participant: its state and session
  sent,     \* the relay: the outbound vector of every session, per round
  last,     \* the most recent call of the host and what it returned
  offpath,  \* whether a session has advanced on an input not the relay's
  errored,  \* the sessions on which some advance call returned an error,
            \* recorded by the calls of SpecFatal
  calls,    \* per session: the advance calls that succeeded and the library
            \* calls made, recorded by the calls of SpecCalls and SpecLive
  signed,   \* the (session, nonces, signing package) of every round2::sign
            \* that gave a share, recorded by the calls of SpecSnap
  snap,     \* the snapshot bytes the host keeps of every session (SpecSnap)
  steps     \* per session: the advance calls the host of SpecLive has made

vars ==
  <<mode, params, plan, sess, sent, last, offpath, errored, calls, signed, snap,
    steps>>

Parties == 1..params.parties

NoPlan == [indices |-> <<>>, message |-> 0]

NoRes == [status |-> "none", err |-> "", out |-> NoOut, recipient |-> "None"]

NoCall ==
  [sid |-> 0, op |-> "none", pre |-> "R0", honest |-> FALSE, res |-> NoRes]

\* The number of advance calls that have succeeded on a session in this round.
RoundNo(tag) ==
  CASE tag = "R0" -> 0 [] tag = "R1" -> 1 [] tag = "R2" -> 2 [] tag = "Done" -> 3

\* A handle the host still holds and may call.
Live(i) == i \in Parties /\ sess[i].st = "live"

Tag(i) == sess[i].ctx.round.tag

\* The outbound vectors the sessions sent when they entered round k.
SentIn(k) == [s \in Parties |-> sent[s][k]]

\* ------------------------------------------------------ inputs of a call
\* The strictly increasing lists over 1..n: the signing subsets.
Subsets(n) == {SortedSeq(S) : S \in (SUBSET (1..n)) \ {{}}}

\* The indices lists a host may send: every signing subset, and lists that
\* are empty, hold a 0, are not increasing, repeat an index, name an index
\* beyond n, or hold a value of more than 16 bits.
IndexLists(n) ==
  Subsets(n) \cup {<<>>, <<0, 1>>, <<1, 0>>, <<2, 1>>, <<1, 1>>, <<1, n + 1>>,
                   <<U16 + 1, 2>>}

\* Whether the relay holds the input of session i for its current round.
RelayReady(i) ==
  CASE Tag(i) = "R0" -> TRUE
    [] Tag(i) = "Done" -> FALSE
    [] OTHER ->
         IF mode = "keygen"
         THEN KeygenRelayReady(SentIn(RoundNo(Tag(i))), i, params.parties)
         ELSE SignRelayReady(SentIn(RoundNo(Tag(i))), i, plan.indices)

\* The batch of round k for session i.
RelayBatch(i, k) ==
  IF mode = "keygen" THEN KeygenRelayBatch(SentIn(k), i, params.parties)
  ELSE SignRelayBatch(SentIn(k), i, plan.indices)

BatchReady(i, k) ==
  IF mode = "keygen" THEN KeygenRelayReady(SentIn(k), i, params.parties)
  ELSE SignRelayReady(SentIn(k), i, plan.indices)

\* What the relay delivers to session i in its current round.
RelayInput(i) ==
  IF Tag(i) = "R0"
  THEN IF mode = "keygen"
       THEN GroupInit(Frost, params.parties, params.threshold, i)
       ELSE SignInitMsg(Frost, plan.indices, plan.message)
  ELSE RelayBatch(i, RoundNo(Tag(i)))

\* Batches a faulty relay makes of a batch: an entry short, an entry more,
\* the entries in reverse order.
Reverse(q) == [j \in 1..Len(q) |-> q[Len(q) + 1 - j]]

Mutations(b) ==
  {b, Pack(Reverse(b.msgs), Frost)}
    \cup (IF Len(b.msgs) >= 1
          THEN {Pack(SubSeq(b.msgs, 1, Len(b.msgs) - 1), Frost),
                Pack(b.msgs \o <<b.msgs[1]>>, Frost)}
          ELSE {})

\* GroupInit envelopes other than the relay's.  A session that is not a DKG
\* session in R0 does not read their fields: it is given two of them.
OtherGroupInits(i) ==
  LET n == params.parties
      t == params.threshold
  IN IF mode = "keygen" /\ Tag(i) = "R0"
     THEN {GroupInit(Gg18, n, t, i), GroupInit(Frost, n, 1, i),
           GroupInit(Frost, t - 1, t, i), GroupInit(Frost, n, t, 0),
           GroupInit(Frost, n, t, n + 1), GroupInit(Frost, n, t, U16),
           GroupInit(Frost, n, t, U16 + i), GroupInit(Frost, U16 + n, U16 + t, i)}
     ELSE {GroupInit(Gg18, n, t, i), GroupInit(Frost, n, t, i)}

\* Every input but the relay's: undecodable bytes, init envelopes of the
\* wrong protocol or with other fields, batches of another round, and
\* faulty batches.
OtherInputs(i) ==
  ({Garbage, SignInitMsg(Gg18, plan.indices, plan.message)}
     \cup OtherGroupInits(i)
     \cup (IF Tag(i) # "R0"
           THEN {SignInitMsg(Frost, plan.indices, plan.message)}
           ELSE {})
     \cup UNION {Mutations(RelayBatch(i, k)) : k \in {k \in 1..2 : BatchReady(i, k)}})
    \ (IF RelayReady(i) THEN {RelayInput(i)} ELSE {})

\* The seeds OsRng may give a call: only the first advance draws.
Seeds(i) == IF Tag(i) = "R0" THEN 0..(RngMax - 1) ELSE {0}

\* The library functions of a DKG session and of a sign session.
LibFns == {"part1", "part2", "part3", "commit", "sign", "aggregate"}

NoCalls ==
  [ok |-> 0, n |-> [f \in LibFns |-> 0], maps |-> {}]

\* The record of session i after an advance call that made library call lc.
Counted(i, lc, ok) ==
  [ok |-> calls[i].ok + (IF ok THEN 1 ELSE 0),
   n |-> IF lc.fn = "none" THEN calls[i].n
         ELSE [calls[i].n EXCEPT ![lc.fn] = @ + 1],
   maps |-> IF lc.fn = "none" THEN calls[i].maps
            ELSE calls[i].maps \cup {[fn |-> lc.fn, keys |-> lc.keys, own |-> lc.own,
                                        package |-> lc.package, ok |-> ok]}]

NoSnap == [kind |-> "None"]

\* ------------------------------------------------------------- actions
\* The host calls advance(data) on the handle of participant i.  track names
\* what the run records of the call: "none", "errors", "calls", "live" (the
\* calls, and the step of the host) or "nonces".
Call(i, data, seed, honest, track) ==
  \E o \in {Advance(sess[i].ctx, data, seed)} :
  \E lc \in {LibCall(sess[i].ctx, data)} :
     /\ track \in {"calls", "live"} =>
          (lc.fn # "none" => calls[i].n[lc.fn] < MaxCalls)
     /\ steps' = IF track = "live" THEN [steps EXCEPT ![i] = @ + 1] ELSE steps
     /\ calls' = IF track \in {"calls", "live"}
                 THEN [calls EXCEPT ![i] = Counted(i, lc, o.res.status = "ok")]
                 ELSE calls
     /\ signed' = IF track = "nonces" /\ lc.fn = "sign" /\ o.res.status = "ok"
                  THEN signed \cup {[sid |-> i, nonces |-> lc.nonces,
                                      package |-> lc.package]}
                  ELSE signed
     /\ snap' = snap
     /\ sess' = [sess EXCEPT ![i] =
                   [st |-> IF o.res.status = "panic" THEN "aborted" ELSE "live",
                    ctx |-> o.ctx]]
     /\ sent' = IF o.res.status = "ok"
                THEN [sent EXCEPT ![i][RoundNo(o.ctx.round.tag)] = o.res.out]
                ELSE sent
     /\ last' = [sid |-> i, op |-> "advance", pre |-> Tag(i), honest |-> honest,
                 res |-> o.res]
     /\ offpath' = (offpath \/ (~honest /\ o.res.status = "ok"))
     /\ errored' = IF track = "errors" /\ o.res.status = "err" THEN errored \cup {i}
                   ELSE errored
     /\ UNCHANGED <<mode, params, plan>>

\* advance on the batch the relay delivers.
AdvanceRelay(i) ==
  /\ Live(i)
  /\ RelayReady(i)
  /\ \E seed \in Seeds(i) : Call(i, RelayInput(i), seed, TRUE, "none")

\* advance on any other input.  The faulty inputs of a run go to the first
\* MaxFaulty sessions.
AdvanceOther(i) ==
  /\ Live(i)
  /\ i <= MaxFaulty
  /\ \E data \in OtherInputs(i) : \E seed \in Seeds(i) : Call(i, data, seed, FALSE, "none")

\* finish(): the session is consumed whatever the result.
FinishCall(i) ==
  /\ Live(i)
  /\ sess' = [sess EXCEPT ![i] =
                [st |-> "finished",
                 ctx |-> [proto |-> sess[i].ctx.proto, round |-> [tag |-> "Moved"]]]]
  /\ last' = [sid |-> i, op |-> "finish", pre |-> Tag(i), honest |-> FALSE,
              res |-> Finish(sess[i].ctx)]
  /\ UNCHANGED <<mode, params, plan, sent, offpath, errored, calls, signed, snap,
                 steps>>

\* serialize() then deserialize(): the handle is replaced by the restored one.
SnapshotRestore(i) ==
  /\ Live(i)
  /\ sess' = [sess EXCEPT ![i].ctx = Deserialize(Serialize(sess[i].ctx))]
  /\ last' = [sid |-> i, op |-> "restore", pre |-> Tag(i), honest |-> FALSE,
              res |-> NoRes]
  /\ UNCHANGED <<mode, params, plan, sent, offpath, errored, calls, signed, snap,
                 steps>>

\* --------------------------------------------------------------- init
\* The seeds of the DKG run that made the key material of a sign group.
KeySeeds(n) == [i \in 1..n |-> i % RngMax]

NoneSent(n) == [i \in 1..n |-> <<NoOut, NoOut, NoOut>>]

InitKeygen ==
  \E n \in 2..MaxParties : \E t \in 2..n :
    /\ mode = "keygen"
    /\ params = [threshold |-> t, parties |-> n]
    /\ plan = NoPlan
    /\ sess = [i \in 1..n |-> [st |-> "live", ctx |-> KeygenNew]]
    /\ sent = NoneSent(n)
    /\ last = NoCall
    /\ offpath = FALSE
    /\ errored = {}
    /\ calls = [i \in 1..n |-> NoCalls]
    /\ signed = {}
    /\ snap = [i \in 1..n |-> NoSnap]
    /\ steps = [i \in 1..n |-> 0]

InitSign ==
  \E n \in 2..MaxParties : \E t \in 2..n :
    \E indices \in IndexLists(n) : \E m \in 1..MaxMsg :
      /\ mode = "sign"
      /\ params = [threshold |-> t, parties |-> n]
      /\ plan = [indices |-> indices, message |-> m]
      /\ sess = [i \in 1..n |->
                   [st |-> "live", ctx |-> SignNew(KeygenRun(t, n, KeySeeds(n))[i])]]
      /\ sent = NoneSent(n)
      /\ last = NoCall
      /\ offpath = FALSE
      /\ errored = {}
      /\ calls = [i \in 1..n |-> NoCalls]
      /\ signed = {}
      /\ snap = [i \in 1..n |-> NoSnap]
      /\ steps = [i \in 1..n |-> 0]

Init == InitKeygen \/ InitSign

Next ==
  \E i \in 1..MaxParties :
    \/ AdvanceRelay(i)
    \/ AdvanceOther(i)
    \/ FinishCall(i)
    \/ SnapshotRestore(i)

Spec == Init /\ [][Next]_vars

\* The calls of a host that records which sessions have failed.
AdvanceRelayT(i) ==
  /\ Live(i)
  /\ RelayReady(i)
  /\ \E seed \in Seeds(i) : Call(i, RelayInput(i), seed, TRUE, "errors")

AdvanceOtherT(i) ==
  /\ Live(i)
  /\ \E data \in OtherInputs(i) : \E seed \in Seeds(i) : Call(i, data, seed, FALSE, "errors")

InitFatal == Init /\ params.parties <= FatalParties

NextFatal ==
  \E i \in 1..MaxParties :
    \/ AdvanceRelayT(i)
    \/ AdvanceOtherT(i)
    \/ FinishCall(i)
    \/ SnapshotRestore(i)

SpecFatal == InitFatal /\ [][NextFatal]_vars

\* The DKG sessions alone, and the sign sessions alone.
SpecKeygen == InitKeygen /\ [][Next]_vars

SpecSign == InitSign /\ [][Next]_vars

\* ============================================================== claims
\* Every input a call may be given in the current state.
AllInputs(i) ==
  OtherInputs(i) \cup (IF RelayReady(i) THEN {RelayInput(i)} ELSE {})

\* The sessions that have reached Done and have not been consumed.
DoneSessions == {i \in Parties : Live(i) /\ Tag(i) = "Done"}

\* The verifying keys broadcast in the last round, over all sessions.
BroadcastKeys ==
  UNION {Range(sent[i][3].msgs) : i \in {j \in Parties : sent[j][3] # NoOut}}

\* C1: in a DKG run of n sessions with indices 1..n where every session
\* advances only on the relay's batches (peers in ascending order, self
\* omitted), no advance fails, so every session goes through the three
\* rounds to Done; the sessions in Done hold the same group verifying key,
\* and the verifying keys broadcast in the last round are all that key.
C1_KeygenAgreement ==
  (mode = "keygen" /\ ~offpath) =>
    /\ (last.op = "advance" /\ last.honest) => last.res.status = "ok"
    /\ \A i \in DoneSessions : \A j \in DoneSessions :
         sess[i].ctx.round.pubkey.verifying_key
           = sess[j].ctx.round.pubkey.verifying_key
    /\ \A i \in DoneSessions :
         /\ Len(sent[i][3].msgs) = params.parties - 1
         /\ BroadcastKeys
              = {Encode("VerifyingKey", sess[i].ctx.round.pubkey.verifying_key)}

C1_Witness ==
  /\ mode = "keygen"
  /\ ~offpath
  /\ params.parties = MaxParties
  /\ params.threshold = 2
  /\ DoneSessions = Parties
  /\ \E i \in Parties : \E j \in Parties :
       sess[i].ctx.round.key.signing_share # sess[j].ctx.round.key.signing_share

\* The verifying key of the group the sign sessions were made from.
GroupKey ==
  KeygenRun(params.threshold, params.parties, KeySeeds(params.parties))[1]
    .val.pubkey.verifying_key

\* The signers of the plan, when the plan is a signing subset of exactly t
\* participants in ascending order.
PlanIsSubset ==
  /\ plan.indices \in Subsets(params.parties)
  /\ Len(plan.indices) = params.threshold

Signers == Range(plan.indices)

\* C2: after a DKG, when the sessions of a subset S of exactly t
\* participants (ascending) run the sign protocol on the relay's batches, no
\* advance of a signer fails; every signer in Done holds the same signature,
\* and it verifies under the group verifying key over the message, whatever
\* the subset.
C2_SignAgreement ==
  (mode = "sign" /\ ~offpath /\ PlanIsSubset) =>
    /\ (last.op = "advance" /\ last.honest /\ last.sid \in Signers)
         => last.res.status = "ok"
    /\ \A g \in DoneSessions :
         /\ g \in Signers
         /\ Verify(GroupKey, plan.message, sess[g].ctx.round.signature)
         /\ \A h \in DoneSessions :
              sess[g].ctx.round.signature = sess[h].ctx.round.signature

C2_Witness ==
  /\ mode = "sign"
  /\ ~offpath
  /\ PlanIsSubset
  /\ params.parties = MaxParties
  /\ params.threshold = 2
  /\ plan.indices = <<1, MaxParties>>
  /\ DoneSessions = Signers

LiveSessions == {i \in Parties : Live(i)}

\* C3: for a DKG session and for a sign session in Done, advance on any
\* input fails with the already-finished error, emits nothing and leaves
\* the session as it is.
C3_AdvanceAfterDone ==
  /\ \A i \in DoneSessions : \A b \in AllInputs(i) : \A seed \in 0..(RngMax - 1) :
       Advance(sess[i].ctx, b, seed)
         = Outcome(sess[i].ctx, Err("protocol already finished"))
  /\ (last.op = "advance" /\ last.pre = "Done") =>
       /\ last.res = Err("protocol already finished")
       /\ last.sid \in DoneSessions

C3_Witness ==
  /\ mode = "sign"
  /\ last.op = "advance"
  /\ last.pre = "Done"
  /\ last.res.err = "protocol already finished"
  /\ last.sid \in DoneSessions

\* C4 (as claimed): a sign session in R0 given an Init envelope whose indices
\* (a signing subset) do not hold its own global index fails with the
\* participant-not-included error on that call, emits nothing and stays in
\* R0.
C4_NotIncludedAtR0 ==
  ( /\ mode = "sign"
    /\ last.op = "advance"
    /\ last.pre = "R0"
    /\ last.honest
    /\ plan.indices \in Subsets(params.parties)
    /\ last.sid \notin Range(plan.indices) ) =>
      /\ last.res = Err("participant index not included")
      /\ Tag(last.sid) = "R0"
      /\ sent[last.sid][1] = NoOut

\* Init envelopes whose protocol_type is not FROST.
WrongProtocolInits(i) ==
  IF mode = "keygen"
  THEN {GroupInit(pt, f[1], f[2], f[3]) :
          pt \in {Gg18, Elgamal},
          f \in {<<params.parties, params.threshold, i>>,
                 <<params.parties, 1, i>>, <<params.parties, params.threshold, 0>>}}
  ELSE {SignInitMsg(pt, list, plan.message) :
          pt \in {Gg18, Elgamal}, list \in IndexLists(params.parties)}

\* C5: in R0, advance on an init envelope (GroupInit for DKG, Init for sign)
\* whose protocol_type is not FROST fails with the wrong-protocol error,
\* emits nothing, and leaves the session in R0 with every field as it was.
C5_WrongProtocol ==
  /\ \A i \in LiveSessions : \A seed \in 0..(RngMax - 1) :
       Tag(i) = "R0" =>
         \A b \in WrongProtocolInits(i) :
           Advance(sess[i].ctx, b, seed)
             = Outcome(sess[i].ctx, Err("wrong protocol type"))
  /\ (last.op = "advance" /\ last.res.err = "wrong protocol type") =>
       /\ last.pre = "R0"
       /\ last.res = Err("wrong protocol type")
       /\ Tag(last.sid) = "R0"

C5_Witness ==
  /\ mode = "keygen"
  /\ last.op = "advance"
  /\ last.res = Err("wrong protocol type")
  /\ Tag(last.sid) = "R0"

\* The result stored in a Done session, as finish writes it.
StoredResult(ctx) ==
  IF ctx.proto = "frost_keygen"
  THEN Encode("(KeyPackage, PublicKeyPackage)",
              [key |-> ctx.round.key, pubkey |-> ctx.round.pubkey])
  ELSE Encode("Signature", ctx.round.signature)

\* What the advance into Done broadcast: the verifying key (DKG) or the
\* signature (sign) it computed.
BroadcastResult(ctx) ==
  IF ctx.proto = "frost_keygen"
  THEN Encode("VerifyingKey", ctx.round.pubkey.verifying_key)
  ELSE Encode("Signature", ctx.round.signature)

\* C6: finish succeeds exactly in Done; in R0, R1 and R2 it fails with the
\* not-finished error, and in Done it returns the stored result (the key
\* package and public key package, or the signature), which is the result
\* the advance into Done computed and broadcast.
C6_FinishOnlyInDone ==
  /\ \A i \in LiveSessions :
       /\ Finish(sess[i].ctx).status = "ok" <=> Tag(i) = "Done"
       /\ Tag(i) # "Done" => Finish(sess[i].ctx) = Err("protocol not finished")
       /\ Tag(i) = "Done" =>
            /\ Finish(sess[i].ctx) = Ok(StoredResult(sess[i].ctx))
            /\ Range(sent[i][3].msgs) = {BroadcastResult(sess[i].ctx)}
  /\ last.op = "finish" => (last.res.status = "ok" <=> last.pre = "Done")

C6_Witness ==
  /\ last.op = "finish"
  /\ last.pre = "Done"
  /\ last.res.status = "ok"
  /\ sess[last.sid].st = "finished"

C8_ErrorsFatal ==
  \A i \in errored :
    /\ ~(last.op = "advance" /\ last.sid = i /\ last.res.status = "ok")
    /\ sess[i].ctx.round.tag # "Done"

\* C9 (as claimed): every advance and finish call returns a result or an
\* error value; none aborts.
C9_NoAbort ==
  /\ last.res.status # "panic"
  /\ \A i \in Parties : sess[i].st # "aborted"

\* An indices list as section 4.3 requires it: at least t entries, strictly
\* increasing, every value within 1..n.
ValidIndices(list) ==
  /\ Len(list) >= params.threshold
  /\ \A k \in 1..Len(list) : list[k] \in 1..params.parties
  /\ \A k \in 1..(Len(list) - 1) : list[k] < list[k + 1]

\* C10 (as claimed): a sign session in R0 moves to R1 only on an Init
\* envelope whose indices are valid; an advance call at R0 on any other list
\* returns an error and the session stays in R0.
C10_IndicesValidated ==
  ( /\ mode = "sign"
    /\ last.op = "advance"
    /\ last.pre = "R0"
    /\ last.honest
    /\ last.res.status # "panic"
    /\ ~ValidIndices(plan.indices) ) =>
      /\ last.res.status = "err"
      /\ Tag(last.sid) = "R0"

\* The fields of a GroupInit envelope as section 4.2 requires them, each
\* within 16 bits.
GroupInitValid(b) ==
  /\ b.threshold >= 2
  /\ b.parties >= b.threshold
  /\ b.index >= 1
  /\ b.index <= b.parties
  /\ b.parties < U16

\* C11 (as claimed): a DKG session in R0 moves to R1 only on a GroupInit
\* whose 32-bit fields satisfy threshold >= 2, parties >= threshold and
\* 1 <= index <= parties; on any other FROST GroupInit advance returns an
\* error and the session stays as it was.
C11_GroupInitValidated ==
  mode = "keygen" =>
    \A i \in LiveSessions :
      Tag(i) = "R0" =>
        \A b \in {x \in AllInputs(i) : x.kind = "GroupInit" /\ x.protocol_type = Frost} :
          \A seed \in Seeds(i) :
            LET o == Advance(sess[i].ctx, b, seed)
            IN /\ o.ctx.round.tag = "R1" => GroupInitValid(b)
               /\ ~GroupInitValid(b) => (o.res.status = "err" /\ o.ctx = sess[i].ctx)

\* ------------------------------------------------------ the honest run
\* The sessions the host drives: every participant of a DKG, the signers of
\* a signing.
Participant(i) == i \in Parties /\ (mode = "sign" => i \in Signers)

\* Groups whose host sends a well-formed Init: at least t signers, ascending.
InitLive ==
  /\ Init
  /\ mode = "sign" =>
       /\ plan.indices \in Subsets(params.parties)
       /\ Len(plan.indices) >= params.threshold

\* The host gives a session the batch of its round as soon as the relay
\* holds it.
HonestAdvance(i) ==
  /\ Participant(i)
  /\ Live(i)
  /\ RelayReady(i)
  /\ \E seed \in Seeds(i) : Call(i, RelayInput(i), seed, TRUE, "live")

\* The host calls finish once the session is in Done.
HonestFinish(i) ==
  /\ Participant(i)
  /\ Live(i)
  /\ Tag(i) = "Done"
  /\ FinishCall(i)

NextLive ==
  \E i \in 1..MaxParties :
    \/ HonestAdvance(i)
    \/ HonestFinish(i)

\* A step in which the host has called advance on session i with the batch
\* the relay holds for it, whatever the call returned.  The step is stated on
\* the host's own count, so that it is enabled exactly when the batch is ready.
AdvanceDue(i) ==
  /\ Participant(i)
  /\ Live(i)
  /\ RelayReady(i)
  /\ steps' = [steps EXCEPT ![i] = @ + 1]

\* The host does not leave a session waiting: a session whose batch is ready
\* is called, and a session in Done is finished.
SpecLive ==
  /\ InitLive
  /\ [][NextLive]_vars
  /\ \A i \in 1..MaxParties :
       WF_steps(AdvanceDue(i)) /\ WF_vars(HonestFinish(i))

AllFinished ==
  \A i \in Parties :
    Participant(i) => (sess[i].st = "finished" /\ calls[i].ok = 3)

DoneAfterThree ==
  \A i \in Parties :
    (Participant(i) /\ Live(i)) => (Tag(i) = "Done" <=> calls[i].ok = 3)

FinishSucceeds == last.op = "finish" => last.res.status = "ok"

\* A session whose batch is ready can be called: no bound of the run stops it.
ReadyIsCallable ==
  \A i \in Parties :
    (Participant(i) /\ Live(i) /\ RelayReady(i)) =>
      \A f \in LibFns : calls[i].n[f] < MaxCalls

\* C12: in a run with honest participants and a relay that delivers every
\* completed round, every DKG session and every signer's session is in Done
\* exactly when three advance calls have succeeded on it, every advance call
\* succeeds, finish succeeds on it, and eventually all of them have finished.
C12_HonestRunCompletes ==
  /\ <>AllFinished
  /\ [](DoneAfterThree /\ FinishSucceeds /\ ReadyIsCallable)
  /\ [](last.op = "advance" => last.res.status = "ok")

C12_Witness ==
  /\ mode = "sign"
  /\ params.parties = MaxParties
  /\ Len(plan.indices) = MaxParties
  /\ AllFinished

\* ------------------------------------------------------------------ C13
\* The handle of session i is held before and after the step.
Held(i) ==
  /\ i \in Parties
  /\ sess[i].st = "live"
  /\ sess'[i].st \in {"live", "aborted"}

\* The step is an advance call on session i that returned Ok.
AdvancedOk(i) ==
  /\ last'.op = "advance"
  /\ last'.sid = i
  /\ last'.res.status = "ok"
  /\ <<sess[i], last>> # <<sess'[i], last'>>

RoundStep(i) ==
  LET a == RoundNo(Tag(i))
      b == RoundNo(sess'[i].ctx.round.tag)
  IN /\ b \in {a, a + 1}
     /\ b = a + 1 => AdvancedOk(i)
     /\ (AdvancedOk(i) /\ sess'[i] # sess[i]) => b = a + 1

\* C13: the round indicator of a session only moves R0 -> R1 -> R2 -> Done: a
\* step moves it forward by exactly one when it is an advance call that
\* returned Ok, and leaves it where it is otherwise (a failing or aborting
\* advance, a snapshot and restore, a call on another session); it never
\* moves backward or skips a round, so each transition happens at most once.
C13_RoundForward ==
  [][\A i \in 1..MaxParties : Held(i) => RoundStep(i)]_vars

C13_Witness ==
  \E i \in Parties :
    /\ Live(i)
    /\ Tag(i) = "Done"
    /\ offpath
    /\ last.op = "advance" /\ last.sid = i /\ last.res.status = "ok"

\* ------------------------------------------------------------------ C14
\* The DKG sessions that hold a secret package whose identifier is one of the
\* max_signers identifiers of its group.
KeygenMembers ==
  {i \in LiveSessions :
     /\ mode = "keygen"
     /\ Tag(i) \in {"R1", "R2"}
     /\ sess[i].ctx.round.secret.identifier \in
          1..sess[i].ctx.round.secret.max_signers}

SkipSelf(i, L) == IF i >= L THEN i + 2 ELSE i + 1

\* C14: for a DKG session with identifier G (local slot L = G - 1) among P
\* parties, index_to_identifier gives position i of 0..P-2 the identifier i+2
\* when i >= L and i+1 otherwise; the identifiers of the P-1 positions are
\* pairwise distinct, none is G, they are exactly 1..P without G, and they
\* are the keys of the round-1 map the session stored.
C14_SkipSelf ==
  \A s \in KeygenMembers :
    LET secret == sess[s].ctx.round.secret
        G0 == secret.identifier
        P == secret.max_signers
        id(i) == IndexToIdentifier(i, G0)
    IN /\ \A i \in 0..(P - 2) : id(i) = SkipSelf(i, G0 - 1)
       /\ \A i, j \in 0..(P - 2) : id(i) = id(j) => i = j
       /\ \A i \in 0..(P - 2) : id(i) # G0
       /\ {id(i) : i \in 0..(P - 2)} = (1..P) \ {G0}
       /\ Tag(s) = "R2" => DOMAIN sess[s].ctx.round.round1 = (1..P) \ {G0}

C14_Witness ==
  \E s \in KeygenMembers :
    /\ Tag(s) = "R2"
    /\ sess[s].ctx.round.secret.identifier = 2
    /\ sess[s].ctx.round.secret.max_signers = MaxParties
    /\ DOMAIN sess[s].ctx.round.round1 = {1, 3}

\* ------------------------------------------------------------------ C15
StrictlyIncreasing(seq) ==
  \A k \in 1..(Len(seq) - 1) : seq[k] < seq[k + 1]

\* The sign sessions in R1 or R2 whose stored indices are identifiers in
\* strictly increasing order with the own identifier among them.
SignMembers ==
  {i \in LiveSessions :
     /\ mode = "sign"
     /\ Tag(i) \in {"R1", "R2"}
     /\ StrictlyIncreasing(sess[i].ctx.indices.v)
     /\ \A k \in 1..Len(sess[i].ctx.indices.v) : IdentifierOk(sess[i].ctx.indices.v[k])
     /\ sess[i].ctx.key.identifier \in Range(sess[i].ctx.indices.v)}

\* The batches of |indices| - 1 entries of the round's type session i may be given.
FullBatches(i) ==
  {b \in AllInputs(i) :
     /\ Unpack(b).ok
     /\ DeserializeVec(IF Tag(i) = "R1" THEN "SigningCommitments"
                        ELSE "SignatureShare", Unpack(b).val).ok
     /\ Len(b.msgs) = Len(sess[i].ctx.indices.v) - 1}

\* C15: in a sign session whose stored indices are strictly increasing and
\* hold the own index at position local_index, entry i of a batch of
\* |indices| - 1 entries is keyed by indices[i+1] when i >= local_index and by
\* indices[i] otherwise; with the own entry inserted, the map given to
\* round2::sign (R1) and to aggregate (R2) has exactly the indices as keys and
\* maps the own identifier to the session's own commitment or share.
C15_SignSkipSelf ==
  \A s \in SignMembers :
    LET ctx == sess[s].ctx
        indices == ctx.indices.v
        own == ctx.key.identifier
        local_index == LocalIndex(ctx).val
    IN /\ LocalIndex(ctx).status = "ok"
       /\ indices[local_index + 1] = own
       /\ \A b \in FullBatches(s) :
            LET lc == SignLibCall(ctx, b)
                vec == [k \in 1..Len(b.msgs) |-> b.msgs[k].val]
            IN /\ lc.fn = (IF Tag(s) = "R1" THEN "sign" ELSE "aggregate")
               /\ DOMAIN lc.map = Range(indices)
               /\ \A i \in 0..(Len(vec) - 1) :
                    lc.map[indices[(IF i >= local_index THEN i + 1 ELSE i) + 1]]
                      = vec[i + 1]
               /\ lc.map[own] = (IF Tag(s) = "R1" THEN ctx.round.commitments
                                  ELSE ctx.round.share)
       /\ (Tag(s) = "R2" /\ ~offpath) =>
            DOMAIN ctx.round.signing_package.signing_commitments = Range(indices)

C15_Witness ==
  \E s \in SignMembers :
    /\ Tag(s) = "R2"
    /\ ~offpath
    /\ Len(sess[s].ctx.indices.v) = MaxParties
    /\ LocalIndex(sess[s].ctx).val = 1
    /\ RelayReady(s)
    /\ RelayInput(s) \in FullBatches(s)

\* ------------------------------------------------------------------ C16
\* The commitment session s broadcast in round 1.
BroadcastCommitment(s) == sent[s][1].msgs[1].val.commitment

\* A round-2 package made by creator for recipient: its share is the
\* creator's polynomial at the recipient's identifier, which the creator's
\* commitment fixes.
CreatedFor(package, creator, recipient) ==
  G(package.signing_share)
    = EvaluateCommitment(recipient, BroadcastCommitment(creator))

\* The DKG sessions that have sent their round-2 vector.
Round2Senders ==
  {s \in Parties : mode = "keygen" /\ sent[s][2] # NoOut}

\* The DKG sessions in R2 whose round-2 batch the relay holds.
Round2Recipients ==
  {r \in LiveSessions : mode = "keygen" /\ Tag(r) = "R2" /\ RelayReady(r)}

\* C16: in a DKG run on the relay's batches, entry i of the round-2 vector of
\* session s is the package s created for the peer index_to_identifier(i, s);
\* the batch the relay gives recipient r holds, at the position r keys by
\* the identifier c, the package that c created for r.
C16_Round2Routing ==
  (mode = "keygen" /\ ~offpath) =>
    /\ \A s \in Round2Senders :
         /\ Len(sent[s][2].msgs) = params.parties - 1
         /\ \A i \in 0..(params.parties - 2) :
              CreatedFor(sent[s][2].msgs[i + 1].val, s, IndexToIdentifier(i, s))
    /\ \A r \in Round2Recipients :
         LET batch == DeserializeVec("round2::Package", Unpack(RelayInput(r)).val).val
             keys == KeygenBatchKeys(Len(batch), sess[r].ctx.round.secret.identifier)
         IN /\ Len(batch) = params.parties - 1
            /\ sess[r].ctx.round.secret.identifier = r
            /\ \A k \in 1..Len(batch) : CreatedFor(batch[k], keys[k], r)
            /\ KeygenLibCall(sess[r].ctx, RelayInput(r)).keys = Parties \ {r}

C16_Witness ==
  /\ mode = "keygen"
  /\ ~offpath
  /\ params.parties = MaxParties
  /\ Round2Senders = Parties
  /\ 2 \in Round2Recipients
  /\ \E r \in Parties : Live(r) /\ Tag(r) = "Done"

\* ------------------------------------------------------------------ C17
\* DKG runs that record the library calls of every advance call, on the
\* relay's batches and on any other input.
CountedRelay(i) ==
  /\ Live(i)
  /\ RelayReady(i)
  /\ \E seed \in Seeds(i) : Call(i, RelayInput(i), seed, TRUE, "calls")

CountedOther(i) ==
  /\ Live(i)
  /\ i <= MaxFaulty
  /\ \E data \in OtherInputs(i) : \E seed \in Seeds(i) :
       Call(i, data, seed, FALSE, "calls")

NextCalls == \E i \in 1..MaxParties : CountedRelay(i) \/ CountedOther(i)

SpecCalls == InitKeygen /\ [][NextCalls]_vars

\* The library calls a DKG session has made when it is in round tag.
CallsDue(tag) ==
  [f \in LibFns |->
     IF \/ f = "part1" /\ tag \in {"R1", "R2", "Done"}
        \/ f = "part2" /\ tag \in {"R2", "Done"}
        \/ f = "part3" /\ tag = "Done"
     THEN 1 ELSE 0]

\* C17: in a DKG session of P parties, whatever the advance calls, part1,
\* part2 and part3 are each called once, when the session leaves R0, R1 and
\* R2, and never again; the maps given to part2 and to part3 have P-1 entries.
C17_LibraryCallsOnce ==
  \A i \in LiveSessions :
    /\ \A f \in LibFns : calls[i].n[f] <= 1
    /\ \A f \in LibFns : calls[i].n[f] >= CallsDue(Tag(i))[f]
    /\ \A m \in calls[i].maps :
         m.fn \in {"part2", "part3"} =>
           Cardinality(m.keys) = params.parties - 1

\* ------------------------------------------------------------------ C18
\* Sign runs in which the host keeps snapshots: it serializes a session that
\* has left R0 (the handle is consumed), keeps the bytes, and deserializes
\* them any number of times.  The run records every share round2::sign gave.
NoncesRelay(i) ==
  /\ Live(i)
  /\ RelayReady(i)
  /\ \E seed \in Seeds(i) : Call(i, RelayInput(i), seed, TRUE, "nonces")

NoncesOther(i) ==
  /\ Live(i)
  /\ i <= MaxFaulty
  /\ \E data \in OtherInputs(i) : \E seed \in Seeds(i) :
       Call(i, data, seed, FALSE, "nonces")

\* Protocol::serialize(self)
Save(i) ==
  /\ Live(i)
  /\ i <= MaxFaulty
  /\ Tag(i) # "R0"
  /\ snap' = [snap EXCEPT ![i] = Serialize(sess[i].ctx)]
  /\ sess' = [sess EXCEPT ![i].st = "finished"]
  /\ last' = [sid |-> i, op |-> "serialize", pre |-> Tag(i), honest |-> FALSE,
              res |-> NoRes]
  /\ UNCHANGED <<mode, params, plan, sent, offpath, errored, calls, signed, steps>>

\* Protocol::deserialize(bytes) of the bytes kept for session i.
Load(i) ==
  /\ i \in Parties
  /\ snap[i] # NoSnap
  /\ sess' = [sess EXCEPT ![i] = [st |-> "live", ctx |-> Deserialize(snap[i])]]
  /\ last' = [sid |-> i, op |-> "deserialize", pre |-> sess'[i].ctx.round.tag,
              honest |-> FALSE, res |-> NoRes]
  /\ UNCHANGED <<mode, params, plan, sent, offpath, errored, calls, signed, snap,
                 steps>>

NextSnap ==
  \E i \in 1..MaxParties : NoncesRelay(i) \/ NoncesOther(i) \/ Save(i) \/ Load(i)

SpecSnap == InitSign /\ [][NextSnap]_vars

\* The payload types of the messages a sign session has sent in round k.
SentTypes(i, k) ==
  IF sent[i][k] = NoOut THEN {}
  ELSE {sent[i][k].msgs[j].json : j \in 1..Len(sent[i][k].msgs)}

\* C18: the nonces a sign session drew in its R0 -> R1 advance give a
\* signature share over at most one signing package, whatever the host does
\* with advance, serialize and deserialize; and no outbound message holds
\* them: the R0 output holds commitments only, the R1 output the share only.
C18_NoncesUsedOnce ==
  /\ \A a, b \in signed :
       (a.sid = b.sid /\ a.nonces = b.nonces) => a.package = b.package
  /\ \A i \in Parties :
       /\ SentTypes(i, 1) \subseteq {"SigningCommitments"}
       /\ SentTypes(i, 2) \subseteq {"SignatureShare"}
       /\ SentTypes(i, 3) \subseteq {"Signature"}

\* ------------------------------------------------------------------ C19
\* Sign runs, on a well-formed Init, in which the relay gives any signer its
\* batch or its batch without the last entry, and that record the library
\* calls.
ShortBatch(b) == Pack(SubSeq(b.msgs, 1, Len(b.msgs) - 1), Frost)

SharesRelay(i) ==
  /\ Live(i)
  /\ RelayReady(i)
  /\ \E seed \in Seeds(i) : Call(i, RelayInput(i), seed, TRUE, "calls")

SharesFaulty(i) ==
  /\ Live(i)
  /\ Tag(i) \in {"R1", "R2"}
  /\ RelayReady(i)
  /\ Call(i, ShortBatch(RelayInput(i)), 0, FALSE, "calls")

InitShares == InitLive /\ mode = "sign"

NextShares == \E i \in 1..MaxParties : SharesRelay(i) \/ SharesFaulty(i)

SpecShares == InitShares /\ [][NextShares]_vars

\* Signer j has given a share over the signing package.
SignedOver(j, package) ==
  \E m \in calls[j].maps : m.fn = "sign" /\ m.ok /\ m.package = package

\* The aggregate calls of session i that returned a signature, on shares
\* their signers made over the session's signing package.
Aggregated(i) ==
  {m \in calls[i].maps :
     /\ m.fn = "aggregate"
     /\ m.ok
     /\ \A j \in m.keys : j \in Parties /\ SignedOver(j, m.package)}

\* C19: a sign session is in Done only after an aggregate call that returned
\* a signature, and every such call was given a shares map of exactly
\* |indices| entries, one for each of the stored indices: a batch that does
\* not hold |indices| - 1 shares gives no signature.
C19_AggregatesAllShares ==
  \A i \in LiveSessions :
    /\ Tag(i) = "Done" => \E m \in calls[i].maps : m.fn = "aggregate" /\ m.ok
    /\ Tag(i) # "R0" =>
         \A m \in Aggregated(i) :
           /\ Cardinality(m.keys) = Len(sess[i].ctx.indices.v)
           /\ m.keys = Range(sess[i].ctx.indices.v)

\* ------------------------------------------------------------------ C20
\* The step is an advance call on session i that returned an error.
AdvancedErr(i) ==
  /\ Live(i)
  /\ last'.op = "advance"
  /\ last'.sid = i
  /\ last'.res.status = "err"

\* C20: an advance call that returns an error leaves the session as it was:
\* the same round with the same secret package, nonces or signing package;
\* and after such a call a sign session in R0 has no message and no indices.
C20_ErrorLeavesSession ==
  [][\A i \in 1..MaxParties :
       AdvancedErr(i) =>
         /\ sess'[i] = sess[i]
         /\ (sess[i].ctx.proto = "frost_sign" /\ Tag(i) = "R0") =>
              (~sess'[i].ctx.indices.some /\ ~sess'[i].ctx.message.some)]_vars

C20_Witness ==
  /\ mode = "sign"
  /\ last.op = "advance"
  /\ last.res.status = "err"
  /\ last.pre = "R1"
  /\ Live(last.sid)
  /\ Tag(last.sid) = "R1"
  /\ sess[last.sid].ctx.indices.some
====
